---------------------------- MODULE Spec2Model ----------------------------
(***************************************************************************)
(* oslo/jwt: createJWT, parseJWT and validateJWT (src/src/jwt/jwt.ts).     *)
(*                                                                         *)
(* A JavaScript string is a sequence of character codes, a Uint8Array a    *)
(* sequence of bytes.  A token is therefore the very character sequence    *)
(* that travels on the wire: base64url, UTF-8 and JSON are computed, not   *)
(* assumed.                                                                *)
(***************************************************************************)
EXTENDS Integers, Sequences, FiniteSets, TLC

(***************************************************************************)
(* Strings of the source, as character codes.                              *)
(***************************************************************************)
HS256 == <<72, 83, 50, 53, 54>>
HS384 == <<72, 83, 51, 56, 52>>
HS512 == <<72, 83, 53, 49, 50>>
RS256 == <<82, 83, 50, 53, 54>>
RS384 == <<82, 83, 51, 56, 52>>
RS512 == <<82, 83, 53, 49, 50>>
ES256 == <<69, 83, 50, 53, 54>>
ES384 == <<69, 83, 51, 56, 52>>
ES512 == <<69, 83, 53, 49, 50>>
PS256 == <<80, 83, 50, 53, 54>>
PS384 == <<80, 83, 51, 56, 52>>
PS512 == <<80, 83, 53, 49, 50>>

\* type JWTAlgorithm: the closed set of tags, in the order of the list in
\* isValidAlgorithm.
JWTAlgorithm ==
    <<HS256, HS384, HS512, RS256, RS384, RS512,
      ES256, ES384, ES512, PS256, PS384, PS512>>

K_alg == <<97, 108, 103>>    \* "alg"
K_typ == <<116, 121, 112>>   \* "typ"
K_exp == <<101, 120, 112>>   \* "exp"
K_iss == <<105, 115, 115>>   \* "iss"
K_sub == <<115, 117, 98>>    \* "sub"
K_aud == <<97, 117, 100>>    \* "aud"
K_nbf == <<110, 98, 102>>    \* "nbf"
K_iat == <<105, 97, 116>>    \* "iat"
K_jti == <<106, 116, 105>>   \* "jti"
S_JWT == <<74, 87, 84>>      \* "JWT"

\* Character codes the code and the JSON grammar name.
Dot == 46        \* "."
Equals == 61     \* "="
Quote == 34      \* the double quote
Backslash == 92
NonAscii == 128  \* any character outside ASCII (what a byte >= 128 decodes to)

Range(s) == {s[i] : i \in 1..Len(s)}

Max(a, b) == IF a >= b THEN a ELSE b

(***************************************************************************)
(* Sequence helpers that index instead of copying.                         *)
(***************************************************************************)
Slice(s, a, b) == [i \in 1..Max(b - a + 1, 0) |-> s[a + i - 1]]

RECURSIVE JoinWith(_, _)
\* Array.prototype.join: the parts with sep between them.
JoinWith(parts, sep) ==
    IF parts = <<>> THEN <<>>
    ELSE IF Len(parts) = 1 THEN parts[1]
    ELSE parts[1] \o <<sep>> \o JoinWith(Tail(parts), sep)

\* String.prototype.split on one separator character: the pieces between the
\* separators, empty pieces kept.
Split(s, sep) ==
    LET at == {i \in 1..Len(s) : s[i] = sep}
        nth(k) == CHOOSE i \in at : Cardinality({j \in at : j < i}) = k - 1
        n == Cardinality(at)
    IN  [k \in 1..(n + 1) |->
            Slice(s, IF k = 1 THEN 1 ELSE nth(k - 1) + 1,
                     IF k = n + 1 THEN Len(s) ELSE nth(k) - 1)]

(***************************************************************************)
(* base64url (the encoding collaborator), RFC 4648 section 5.              *)
(***************************************************************************)
Base64UrlAlphabet ==
    <<65, 66, 67, 68, 69, 70, 71, 72, 73, 74, 75, 76, 77, 78, 79, 80, 81, 82,
      83, 84, 85, 86, 87, 88, 89, 90, 97, 98, 99, 100, 101, 102, 103, 104,
      105, 106, 107, 108, 109, 110, 111, 112, 113, 114, 115, 116, 117, 118,
      119, 120, 121, 122, 48, 49, 50, 51, 52, 53, 54, 55, 56, 57, 45, 95>>

\* The 6-bit value of a character of the alphabet, -1 for any other character.
Base64UrlValue(c) ==
    IF c >= 65 /\ c <= 90 THEN c - 65
    ELSE IF c >= 97 /\ c <= 122 THEN c - 71
    ELSE IF c >= 48 /\ c <= 57 THEN c + 4
    ELSE IF c = 45 THEN 62
    ELSE IF c = 95 THEN 63
    ELSE -1

Pow64(k) == IF k = 0 THEN 1 ELSE IF k = 1 THEN 64 ELSE IF k = 2 THEN 4096 ELSE 262144
Pow256(k) == IF k = 0 THEN 1 ELSE IF k = 1 THEN 256 ELSE 65536

ByteAt(bytes, k) == IF k <= Len(bytes) THEN bytes[k] ELSE 0

\* base64url.encode(bytes, {includePadding: false}): 3 bytes make 4
\* characters; a last group of 1 or 2 bytes makes 2 or 3 characters, its
\* unused low bits zero.
Base64UrlEncode(bytes) ==
    LET n == Len(bytes)
        m == (n * 4 + 2) \div 3
        buffer == [c \in 0..((n + 2) \div 3 - 1) |->
                      ByteAt(bytes, 3 * c + 1) * 65536
                      + ByteAt(bytes, 3 * c + 2) * 256
                      + ByteAt(bytes, 3 * c + 3)]
    IN  [i \in 1..m |->
            Base64UrlAlphabet[
                ((buffer[(i - 1) \div 4] \div Pow64(3 - ((i - 1) % 4))) % 64) + 1]]

\* base64url.decode(data, {strict: false}).  Characters are read in chunks of
\* four.  "=" is padding and may stand only in the last chunk; characters
\* missing from the last chunk count as padding (non-strict); any other
\* character outside the alphabet makes decode throw.  A chunk gives 3 bytes,
\* 2 with one padding, 1 with two or more; the bits of the chunk beyond its
\* bytes are dropped without being looked at.
Base64UrlDecode(data) ==
    LET n == Len(data)
        chunkCount == (n + 3) \div 4
        bad == \E k \in 1..n :
                  \/ data[k] = Equals /\ ((k - 1) \div 4) + 1 /= chunkCount
                  \/ data[k] /= Equals /\ Base64UrlValue(data[k]) = -1
        isPad(k) == k > n \/ data[k] = Equals
        padCount == Cardinality({k \in (4 * chunkCount - 3)..(4 * chunkCount) : isPad(k)})
        lastBytes == IF padCount < 1 THEN 3 ELSE IF padCount < 2 THEN 2 ELSE 1
        outLen == IF chunkCount = 0 THEN 0 ELSE 3 * (chunkCount - 1) + lastBytes
        val == [k \in 1..(4 * chunkCount) |->
                   IF isPad(k) THEN 0 ELSE Base64UrlValue(data[k])]
        buffer == [c \in 0..(chunkCount - 1) |->
                      val[4 * c + 1] * 262144 + val[4 * c + 2] * 4096
                      + val[4 * c + 3] * 64 + val[4 * c + 4]]
    IN  IF bad THEN [ok |-> FALSE, bytes |-> <<>>]
        ELSE [ok |-> TRUE,
              bytes |-> [k \in 1..outLen |->
                  (buffer[(k - 1) \div 3] \div Pow256(2 - ((k - 1) % 3))) % 256]]

(***************************************************************************)
(* TextEncoder / TextDecoder (UTF-8).  The texts of the model are ASCII;   *)
(* a byte of 128 or more decodes to some character outside ASCII.          *)
(***************************************************************************)
TextEncode(s) == s

TextDecode(bytes) == [k \in 1..Len(bytes) |-> IF bytes[k] < 128 THEN bytes[k] ELSE NonAscii]


(***************************************************************************)
(* JSON values.  An object is the sequence of its members <<key, value>>   *)
(* in insertion order, keys distinct; an array the sequence of its         *)
(* elements.  A number written as an integer literal keeps its sign and    *)
(* its decimal digits, so that no magnitude is out of reach; a literal     *)
(* with a fraction or an exponent keeps its text (int = FALSE).            *)
(***************************************************************************)
JNull == [t |-> "null"]
JBool(b) == [t |-> "bool", v |-> b]
JStr(s) == [t |-> "str", v |-> s]
JArr(elems) == [t |-> "arr", v |-> elems]
JObj(members) == [t |-> "obj", v |-> members]
JNum(neg, digits) == [t |-> "num", int |-> TRUE, neg |-> neg, digits |-> digits]
JFloat(text) == [t |-> "num", int |-> FALSE, neg |-> FALSE, digits |-> text]

RECURSIVE NatDigits(_)
\* The decimal digits of a natural number.
NatDigits(n) == IF n < 10 THEN <<n>> ELSE NatDigits(n \div 10) \o <<n % 10>>

\* The number value of a small integer.
JInt(n) == IF n < 0 THEN JNum(TRUE, NatDigits(0 - n)) ELSE JNum(FALSE, NatDigits(n))

\* typeof, with Array.isArray and null told apart where the code does.
IsNull(v) == v.t = "null"
IsString(v) == v.t = "str"
IsNumber(v) == v.t = "num"
IsArray(v) == v.t = "arr"
\* typeof v === "object" && v !== null
IsObjectNotNull(v) == v.t \in {"obj", "arr"}

\* key in obj, for the keys the code asks about: an array has none of them.
HasKey(obj, key) ==
    obj.t = "obj" /\ \E k \in 1..Len(obj.v) : obj.v[k][1] = key

\* obj[key], for a key that is there.
Get(obj, key) ==
    obj.v[CHOOSE k \in 1..Len(obj.v) : obj.v[k][1] = key][2]

\* The members with key set to value: a new key goes last, a repeated key
\* keeps its place and takes the new value.
PutMember(members, key, value) ==
    IF \E k \in 1..Len(members) : members[k][1] = key
    THEN [k \in 1..Len(members) |->
            IF members[k][1] = key THEN <<key, value>> ELSE members[k]]
    ELSE Append(members, <<key, value>>)

(***************************************************************************)
(* JSON.stringify.  The strings of the model hold printable ASCII, of      *)
(* which the quote and the backslash are escaped.                          *)
(***************************************************************************)
RECURSIVE QuoteChars(_)
QuoteChars(s) ==
    IF s = <<>> THEN <<>>
    ELSE (IF Head(s) = Quote \/ Head(s) = Backslash
          THEN <<Backslash, Head(s)>> ELSE <<Head(s)>>) \o QuoteChars(Tail(s))

StringifyString(s) == <<Quote>> \o QuoteChars(s) \o <<Quote>>

RECURSIVE JSONStringify(_)
JSONStringify(v) ==
    CASE v.t = "null" -> <<110, 117, 108, 108>>
      [] v.t = "bool" -> IF v.v THEN <<116, 114, 117, 101>>
                                ELSE <<102, 97, 108, 115, 101>>
      [] v.t = "str" -> StringifyString(v.v)
      [] v.t = "num" ->
            IF v.int
            THEN (IF v.neg THEN <<45>> ELSE <<>>)
                 \o [k \in 1..Len(v.digits) |-> v.digits[k] + 48]
            ELSE v.digits
      [] v.t = "arr" ->
            <<91>> \o JoinWith([k \in 1..Len(v.v) |-> JSONStringify(v.v[k])], 44)
                   \o <<93>>
      [] v.t = "obj" ->
            <<123>> \o JoinWith([k \in 1..Len(v.v) |->
                                   StringifyString(v.v[k][1]) \o <<58>>
                                   \o JSONStringify(v.v[k][2])], 44)
                    \o <<125>>

(***************************************************************************)
(* JSON.parse (ECMA-404).  A parse step yields [ok, v, i]: whether the     *)
(* text from its start is a value, the value, and the index after it.      *)
(* JSON.parse throws a SyntaxError exactly when the result is not ok.      *)
(***************************************************************************)
At(s, i) == IF i >= 1 /\ i <= Len(s) THEN s[i] ELSE -1

Fail == [ok |-> FALSE, v |-> JNull, i |-> 0]
Found(v, i) == [ok |-> TRUE, v |-> v, i |-> i]

IsWhitespace(c) == c = 32 \/ c = 9 \/ c = 10 \/ c = 13
IsDigit(c) == c >= 48 /\ c <= 57

RECURSIVE SkipWhitespace(_, _)
SkipWhitespace(s, i) == IF IsWhitespace(At(s, i)) THEN SkipWhitespace(s, i + 1) ELSE i

RECURSIVE DigitsEnd(_, _)
\* The first index from i on that holds no digit.
DigitsEnd(s, i) == IF IsDigit(At(s, i)) THEN DigitsEnd(s, i + 1) ELSE i

HexValue(c) ==
    IF c >= 48 /\ c <= 57 THEN c - 48
    ELSE IF c >= 97 /\ c <= 102 THEN c - 87
    ELSE IF c >= 65 /\ c <= 70 THEN c - 55
    ELSE -1

\* The character a one-letter escape stands for, -1 for no escape.
EscapeValue(c) ==
    CASE c = 34 -> 34 [] c = 92 -> 92 [] c = 47 -> 47 [] c = 98 -> 8
      [] c = 102 -> 12 [] c = 110 -> 10 [] c = 114 -> 13 [] c = 116 -> 9
      [] OTHER -> -1

RECURSIVE ParseStringBody(_, _, _)
\* The characters of a string literal from index i (after the opening quote)
\* to its closing quote.
ParseStringBody(s, i, acc) ==
    LET c == At(s, i) IN
    IF c = -1 \/ (c < 32) THEN Fail
    ELSE IF c = Quote THEN Found(JStr(acc), i + 1)
    ELSE IF c = Backslash
    THEN LET e == At(s, i + 1) IN
         IF e = 117
         THEN LET h1 == HexValue(At(s, i + 2))
                  h2 == HexValue(At(s, i + 3))
                  h3 == HexValue(At(s, i + 4))
                  h4 == HexValue(At(s, i + 5))
                  code == h1 * 4096 + h2 * 256 + h3 * 16 + h4
              IN  IF h1 = -1 \/ h2 = -1 \/ h3 = -1 \/ h4 = -1 THEN Fail
                  ELSE ParseStringBody(s, i + 6,
                           Append(acc, IF code < 128 THEN code ELSE NonAscii))
         ELSE IF EscapeValue(e) = -1 THEN Fail
         ELSE ParseStringBody(s, i + 2, Append(acc, EscapeValue(e)))
    ELSE ParseStringBody(s, i + 1, Append(acc, c))

\* A number literal at index i:
\*   -? (0 | [1-9][0-9]*) (. [0-9]+)? ([eE] [+-]? [0-9]+)?
ParseNumber(s, i) ==
    LET neg == At(s, i) = 45
        a == IF neg THEN i + 1 ELSE i
        b == IF At(s, a) = 48 THEN a + 1 ELSE DigitsEnd(s, a)
        hasFrac == At(s, b) = 46
        c == IF hasFrac THEN DigitsEnd(s, b + 1) ELSE b
        hasExp == At(s, c) = 101 \/ At(s, c) = 69
        d0 == IF hasExp /\ (At(s, c + 1) = 43 \/ At(s, c + 1) = 45)
              THEN c + 2 ELSE c + 1
        d == IF hasExp THEN DigitsEnd(s, d0) ELSE c
        digits == [k \in 1..(b - a) |-> s[a + k - 1] - 48]
    IN  IF b = a \/ (hasFrac /\ c = b + 1) \/ (hasExp /\ d = d0) THEN Fail
        ELSE IF hasFrac \/ hasExp THEN Found(JFloat(Slice(s, i, d - 1)), d)
        ELSE Found(JNum(neg /\ digits /= <<0>>, digits), d)

\* The literal word at index i.
ParseWord(s, i, word, value) ==
    IF \A k \in 1..Len(word) : At(s, i + k - 1) = word[k]
    THEN Found(value, i + Len(word)) ELSE Fail

RECURSIVE ParseValue(_, _), ParseElements(_, _, _), ParseMembers(_, _, _)

\* The value that starts at index i (whitespace already skipped).
ParseValue(s, i) ==
    LET c == At(s, i) IN
    CASE c = 123 ->
            LET j == SkipWhitespace(s, i + 1) IN
            IF At(s, j) = 125 THEN Found(JObj(<<>>), j + 1)
            ELSE ParseMembers(s, j, <<>>)
      [] c = 91 ->
            LET j == SkipWhitespace(s, i + 1) IN
            IF At(s, j) = 93 THEN Found(JArr(<<>>), j + 1)
            ELSE ParseElements(s, j, <<>>)
      [] c = Quote -> ParseStringBody(s, i + 1, <<>>)
      [] c = 45 \/ IsDigit(c) -> ParseNumber(s, i)
      [] c = 116 -> ParseWord(s, i, <<116, 114, 117, 101>>, JBool(TRUE))
      [] c = 102 -> ParseWord(s, i, <<102, 97, 108, 115, 101>>, JBool(FALSE))
      [] c = 110 -> ParseWord(s, i, <<110, 117, 108, 108>>, JNull)
      [] OTHER -> Fail

\* The elements of an array from index i (at an element) to its "]".
ParseElements(s, i, acc) ==
    LET r == ParseValue(s, i) IN
    IF ~r.ok THEN Fail
    ELSE LET j == SkipWhitespace(s, r.i) IN
         IF At(s, j) = 44
         THEN ParseElements(s, SkipWhitespace(s, j + 1), Append(acc, r.v))
         ELSE IF At(s, j) = 93 THEN Found(JArr(Append(acc, r.v)), j + 1)
         ELSE Fail

\* The members of an object from index i (at a key) to its "}".
ParseMembers(s, i, acc) ==
    IF At(s, i) /= Quote THEN Fail
    ELSE LET k == ParseStringBody(s, i + 1, <<>>) IN
         IF ~k.ok THEN Fail
         ELSE LET j == SkipWhitespace(s, k.i) IN
              IF At(s, j) /= 58 THEN Fail
              ELSE LET r == ParseValue(s, SkipWhitespace(s, j + 1)) IN
                   IF ~r.ok THEN Fail
                   ELSE LET m == SkipWhitespace(s, r.i)
                            next == PutMember(acc, k.v.v, r.v)
                        IN  IF At(s, m) = 44
                            THEN ParseMembers(s, SkipWhitespace(s, m + 1), next)
                            ELSE IF At(s, m) = 125 THEN Found(JObj(next), m + 1)
                            ELSE Fail

\* JSON.parse(text): [ok |-> FALSE] stands for the SyntaxError it throws.
JSONParse(text) ==
    LET r == ParseValue(text, SkipWhitespace(text, 1)) IN
    IF r.ok /\ SkipWhitespace(text, r.i) = Len(text) + 1
    THEN [ok |-> TRUE, v |-> r.v]
    ELSE [ok |-> FALSE, v |-> JNull]


(***************************************************************************)
(* Date.  new Date(ms) keeps the time value ms when it is within           *)
(* +-8,640,000,000,000,000 ms of the epoch and is an Invalid Date (time    *)
(* value NaN) beyond it.  A date is "time" (a time value, sign and         *)
(* digits), "invalid" (NaN) or "inexact": the seconds were not written as  *)
(* an integer, and their product with 1000 in floating point is not        *)
(* computed here.                                                          *)
(***************************************************************************)
MaxTimeValue == <<8, 6, 4, 0, 0, 0, 0, 0, 0, 0, 0, 0, 0, 0, 0, 0>>

\* a < b for two naturals given by their digits (no leading zeros).
DigitsLess(a, b) ==
    \/ Len(a) < Len(b)
    \/ /\ Len(a) = Len(b)
       /\ \E k \in 1..Len(a) :
             a[k] < b[k] /\ \A j \in 1..(k - 1) : a[j] = b[j]

\* The digits of seconds * 1000.
TimesThousand(digits) == IF digits = <<0>> THEN <<0>> ELSE digits \o <<0, 0, 0>>

\* new Date(seconds * 1000), seconds a JSON number.
NewDate(seconds) ==
    IF ~seconds.int
    THEN [t |-> "date", kind |-> "inexact", neg |-> FALSE, digits |-> <<>>]
    ELSE IF DigitsLess(MaxTimeValue, TimesThousand(seconds.digits))
    THEN [t |-> "date", kind |-> "invalid", neg |-> FALSE, digits |-> <<>>]
    ELSE [t |-> "date", kind |-> "time", neg |-> seconds.neg,
          digits |-> TimesThousand(seconds.digits)]

\* The values Date.now() < date.getTime() can take, nowMs a natural number:
\* a comparison with NaN is false.
NowIsBefore(nowMs, date) ==
    CASE date.kind = "invalid" -> {FALSE}
      [] date.kind = "inexact" -> {TRUE, FALSE}
      [] OTHER -> {~date.neg /\ DigitsLess(NatDigits(nowMs), date.digits)}

\* isWithinExpirationDate(date): whether date is still in the future.
IsWithinExpirationDate(nowMs, date) == NowIsBefore(nowMs, date)

(***************************************************************************)
(* The signing primitives (the crypto collaborator).  A primitive is what  *)
(* getAlgorithm constructs: its family and parameters.  Signatures are     *)
(* ideal: a signature names the primitive, the key and the data it was     *)
(* made for, and verify accepts exactly the signatures sign can make.      *)
(* ECDSA and RSASSA-PSS sign with fresh randomness (salt).  A signature    *)
(* has the length of the real one counted modulo 3, which is what decides  *)
(* how many bits of its last base64url character carry no data.           *)
(***************************************************************************)
MaxSalt == 1

\* Signature lengths in bytes: the HMAC digest, the RSA modulus (2048 bits),
\* the two ECDSA integers.
SignatureLength(primitive) ==
    CASE primitive.family = "HMAC" ->
            (CASE primitive.hash = "SHA-256" -> 32 [] primitive.hash = "SHA-384" -> 48
               [] OTHER -> 64)
      [] primitive.family = "ECDSA" ->
            (CASE primitive.curve = "P-256" -> 64 [] primitive.curve = "P-384" -> 96
               [] OTHER -> 132)
      [] OTHER -> 256

FamilyCode(primitive) ==
    CASE primitive.family = "HMAC" -> 1 [] primitive.family = "ECDSA" -> 2
      [] primitive.family = "RSASSAPKCS1v1_5" -> 3 [] OTHER -> 4

HashCode(primitive) ==
    CASE primitive.hash = "SHA-256" -> 1 [] primitive.hash = "SHA-384" -> 2
      [] OTHER -> 3

Salts(primitive) ==
    IF primitive.family \in {"ECDSA", "RSASSAPSS"} THEN 0..MaxSalt ELSE {0}

\* The signature of data under key made with salt.
SignWith(primitive, key, data, salt) ==
    LET body == <<FamilyCode(primitive), HashCode(primitive), key, salt>> \o data
        pad == (SignatureLength(primitive) + 3 - (Len(body) % 3)) % 3
    IN  body \o [k \in 1..pad |-> 0]

\* primitive.verify(key, signature, data)
Verify(primitive, key, signature, data) ==
    \E salt \in Salts(primitive) : signature = SignWith(primitive, key, data, salt)

(***************************************************************************)
(* jwt.ts                                                                  *)
(***************************************************************************)
ecdsaDictionary(algorithm) ==
    CASE algorithm = ES256 -> [hash |-> "SHA-256", curve |-> "P-256"]
      [] algorithm = ES384 -> [hash |-> "SHA-384", curve |-> "P-384"]
      [] algorithm = ES512 -> [hash |-> "SHA-512", curve |-> "P-521"]

hmacDictionary(algorithm) ==
    CASE algorithm = HS256 -> "SHA-256" [] algorithm = HS384 -> "SHA-384"
      [] algorithm = HS512 -> "SHA-512"

rsassapkcs1v1_5Dictionary(algorithm) ==
    CASE algorithm = RS256 -> "SHA-256" [] algorithm = RS384 -> "SHA-384"
      [] algorithm = RS512 -> "SHA-512"

rsassapssDictionary(algorithm) ==
    CASE algorithm = PS256 -> "SHA-256" [] algorithm = PS384 -> "SHA-384"
      [] algorithm = PS512 -> "SHA-512"

\* getAlgorithm(algorithm): a new primitive, or TypeError("Invalid algorithm")
\* (ok = FALSE) for a value that is none of the tags.
getAlgorithm(algorithm) ==
    IF algorithm = ES256 \/ algorithm = ES384 \/ algorithm = ES512
    THEN [ok |-> TRUE, family |-> "ECDSA", hash |-> ecdsaDictionary(algorithm).hash,
          curve |-> ecdsaDictionary(algorithm).curve]
    ELSE IF algorithm = HS256 \/ algorithm = HS384 \/ algorithm = HS512
    THEN [ok |-> TRUE, family |-> "HMAC", hash |-> hmacDictionary(algorithm),
          curve |-> ""]
    ELSE IF algorithm = RS256 \/ algorithm = RS384 \/ algorithm = RS512
    THEN [ok |-> TRUE, family |-> "RSASSAPKCS1v1_5",
          hash |-> rsassapkcs1v1_5Dictionary(algorithm), curve |-> ""]
    ELSE IF algorithm = PS256 \/ algorithm = PS384 \/ algorithm = PS512
    THEN [ok |-> TRUE, family |-> "RSASSAPSS",
          hash |-> rsassapssDictionary(algorithm), curve |-> ""]
    ELSE [ok |-> FALSE, family |-> "", hash |-> "", curve |-> ""]

\* isValidAlgorithm with the typeof test alone: any string passes.
isValidAlgorithm_AnyString(maybeValidAlgorithm) == IsString(maybeValidAlgorithm)

\* isValidAlgorithm(maybeValidAlgorithm), a JSON value.
isValidAlgorithm(maybeValidAlgorithm) ==
    IF ~IsString(maybeValidAlgorithm) THEN FALSE
    ELSE maybeValidAlgorithm.v \in Range(JWTAlgorithm)

\* createJWTHeader(algorithm)
createJWTHeader(algorithm) ==
    JObj(<< <<K_alg, JStr(algorithm)>>, <<K_typ, JStr(S_JWT)>> >>)

\* What parseJWT gives back that is no token: null, or the exception that
\* leaves it (base64url.decode's Error, JSON.parse's SyntaxError).
Null == [kind |-> "null"]
Thrown(error) == [kind |-> "throw", error |-> error]

\* A claim that must be a number and is not: "exp", "nbf", "iat".
NumberClaimBad(payload, key) == HasKey(payload, key) /\ ~IsNumber(Get(payload, key))

\* The string test with null let through, as for an optional field.
StringClaimBad_NullAllowed(payload, key) ==
    HasKey(payload, key) /\ ~IsString(Get(payload, key)) /\ ~IsNull(Get(payload, key))

\* A claim that must be a string and is not: "iss", "sub", "jti".
StringClaimBad(payload, key) == HasKey(payload, key) /\ ~IsString(Get(payload, key))

\* Lines 172 to 186: an "aud" that is neither a string nor an array of
\* strings.
AudienceBad(payload) ==
    /\ HasKey(payload, K_aud)
    /\ IF ~IsArray(Get(payload, K_aud)) THEN ~IsString(Get(payload, K_aud))
       ELSE \E k \in 1..Len(Get(payload, K_aud).v) : ~IsString(Get(payload, K_aud).v[k])

\* jwt.audiences without the wrapping of a single string.
AudiencesOf_Unwrapped(payload) ==
    IF ~HasKey(payload, K_aud) THEN JNull ELSE Get(payload, K_aud)

\* Lines 172 to 186: jwt.audiences for an "aud" that passed.
AudiencesOf(payload) ==
    IF ~HasKey(payload, K_aud) THEN JNull
    ELSE IF ~IsArray(Get(payload, K_aud)) THEN JArr(<<Get(payload, K_aud)>>)
    ELSE Get(payload, K_aud)

\* The claim checks of parseJWT, lines 154 to 205, in the order of the code:
\* jwt is the token built so far.
ParseClaims(jwt, payload) ==
    IF NumberClaimBad(payload, K_exp) THEN Null
    ELSE IF StringClaimBad(payload, K_iss) THEN Null
    ELSE IF StringClaimBad(payload, K_sub) THEN Null
    ELSE IF AudienceBad(payload) THEN Null
    ELSE IF NumberClaimBad(payload, K_nbf) THEN Null
    ELSE IF NumberClaimBad(payload, K_iat) THEN Null
    ELSE IF StringClaimBad(payload, K_jti) THEN Null
    ELSE [jwt EXCEPT
            !.expiresAt = IF HasKey(payload, K_exp)
                          THEN NewDate(Get(payload, K_exp)) ELSE JNull,
            !.issuer = IF HasKey(payload, K_iss) THEN Get(payload, K_iss) ELSE JNull,
            !.subject = IF HasKey(payload, K_sub) THEN Get(payload, K_sub) ELSE JNull,
            !.audiences = AudiencesOf(payload),
            !.notBefore = IF HasKey(payload, K_nbf)
                          THEN NewDate(Get(payload, K_nbf)) ELSE JNull,
            !.issuedAt = IF HasKey(payload, K_iat)
                         THEN NewDate(Get(payload, K_iat)) ELSE JNull,
            !.jwtId = IF HasKey(payload, K_jti) THEN Get(payload, K_jti) ELSE JNull]

\* Lines 136 to 205: the payload, given what JSON.parse made of its text
\* (payload), and the token's other fields.
ParsePayload(token, parts, header, payload) ==
    IF ~payload.ok THEN Thrown("SyntaxError")
    ELSE IF ~IsObjectNotNull(payload.v) THEN Null
    ELSE ParseClaims(
            [kind |-> "jwt",
             value |-> token,
             header |-> header,
             payload |-> payload.v,
             parts |-> parts,
             expiresAt |-> JNull,
             issuer |-> JNull,
             subject |-> JNull,
             audiences |-> JNull,
             notBefore |-> JNull,
             issuedAt |-> JNull,
             jwtId |-> JNull,
             algorithm |-> Get(header, K_alg).v],
            payload.v)

\* Lines 126 to 136: the header, given what JSON.parse made of its text
\* (header), and then the payload.
ParseHeader(token, parts, rawPayload, header) ==
    IF ~header.ok THEN Thrown("SyntaxError")
    ELSE IF ~IsObjectNotNull(header.v) THEN Null
    ELSE IF ~HasKey(header.v, K_alg) \/ ~isValidAlgorithm(Get(header.v, K_alg)) THEN Null
    ELSE IF /\ HasKey(header.v, K_typ)
            /\ ~(IsString(Get(header.v, K_typ)) /\ Get(header.v, K_typ).v = S_JWT)
         THEN Null
    ELSE ParsePayload(token, parts, header.v, JSONParse(TextDecode(rawPayload.bytes)))

\* Lines 119 to 126: the two segments decoded (rawHeader, rawPayload), both
\* before anything is parsed.
ParseParts(token, parts, rawHeader, rawPayload) ==
    IF ~rawHeader.ok \/ ~rawPayload.ok THEN Thrown("Base64 decode error")
    ELSE ParseHeader(token, parts, rawPayload, JSONParse(TextDecode(rawHeader.bytes)))

\* parseJWT decoding the first two segments it finds before it counts them.
ParseSplit_DecodeFirst(token, parts) ==
    IF /\ Len(parts) >= 2
       /\ ~Base64UrlDecode(parts[1]).ok \/ ~Base64UrlDecode(parts[2]).ok
    THEN Thrown("Base64 decode error")
    ELSE IF Len(parts) /= 3 THEN Null
    ELSE ParseParts(token, parts, Base64UrlDecode(parts[1]), Base64UrlDecode(parts[2]))

\* Lines 115 to 125: the segment count, given token.split(".") (parts).
ParseSplit(token, parts) ==
    IF Len(parts) /= 3 THEN Null
    ELSE ParseParts(token, parts, Base64UrlDecode(parts[1]), Base64UrlDecode(parts[2]))

\* parseJWT(token)
parseJWT(token) == ParseSplit(token, Split(token, Dot))


(***************************************************************************)
(* The state: the clock, and one call of createJWT, parseJWT or            *)
(* validateJWT from its start to its end.  createJWT and validateJWT       *)
(* suspend once, at the await of sign or verify; while a call is suspended *)
(* its frame waits and other calls can start, run and end.                 *)
(***************************************************************************)
VARIABLES
    tick,         \* the clock: Date.now() is ClockValues[tick]
    pc,           \* "idle", "await" (suspended at sign or verify), "done"
    op,           \* the function called: "parseJWT", "validateJWT", "createJWT"
    args,         \* its arguments: algorithm, key, jwt, header, payload
    source,       \* where the jwt argument came from
    parsedJWT,    \* validateJWT's parsedJWT, kept across the await
    pending,      \* the sign or verify call awaited
    result,       \* how the call ended: the value returned, the error thrown
    resolved,     \* the tags getAlgorithm was called with, in order
    cryptoCalls,  \* the primitives' methods called, in order
    readings,     \* the clock as read by the expiration and the not-before check
    suspended     \* the frames of the other calls that wait at their await

vars == <<tick, pc, op, args, source, parsedJWT, pending, result, resolved,
          cryptoCalls, readings, suspended>>

\* The instants the clock passes through, in milliseconds: around the whole
\* seconds that exp and nbf can name.
ClockValues == <<999, 1000, 1001, 1999, 2000, 2001, 2999, 3000, 3001>>
MaxTick == 3
NumKeys == 2
\* How many calls can wait at their await while another one runs.
MaxSuspended == 1

Keys == 1..NumKeys
Now == ClockValues[tick]

NoArgs == [algorithm |-> <<>>, key |-> 0, jwt |-> <<>>, header |-> JNull, payload |-> JNull]
NoSource == [from |-> "input", key |-> 0, header |-> JNull, payload |-> JNull,
             original |-> <<>>, index |-> 0, bit |-> 0]
NoPending == [method |-> "none", primitive |-> getAlgorithm(<<>>), key |-> 0,
              signature |-> <<>>, data |-> <<>>]
NoResult == [kind |-> "none", value |-> Null, error |-> "", check |-> ""]
NoReadings == [exp |-> -1, nbf |-> -1]

\* The frame of the call that runs: its arguments and locals, and what it
\* has done so far.
Frame ==
    [pc |-> pc, op |-> op, args |-> args, source |-> source, parsedJWT |-> parsedJWT,
     pending |-> pending, result |-> result, resolved |-> resolved,
     cryptoCalls |-> cryptoCalls, readings |-> readings]

\* No call.
NoFrame ==
    [pc |-> "idle", op |-> "", args |-> NoArgs, source |-> NoSource, parsedJWT |-> Null,
     pending |-> NoPending, result |-> NoResult, resolved |-> <<>>,
     cryptoCalls |-> <<>>, readings |-> NoReadings]

Return(value) == [kind |-> "return", value |-> value, error |-> "", check |-> ""]
\* The error thrown, and the step of the function it left from.
Throw(error, check) == [kind |-> "throw", value |-> Null, error |-> error, check |-> check]

Init ==
    /\ tick = 1
    /\ pc = "idle"
    /\ op = ""
    /\ args = NoArgs
    /\ source = NoSource
    /\ parsedJWT = Null
    /\ pending = NoPending
    /\ result = NoResult
    /\ resolved = <<>>
    /\ cryptoCalls = <<>>
    /\ readings = NoReadings
    /\ suspended = [i \in 1..MaxSuspended |-> NoFrame]

\* Time passes.
Tick ==
    /\ tick < MaxTick
    /\ tick' = tick + 1
    /\ UNCHANGED <<pc, op, args, source, parsedJWT, pending, result, resolved,
                   cryptoCalls, readings, suspended>>

(***************************************************************************)
(* validateJWT, lines 85 to 112.                                           *)
(***************************************************************************)
\* Lines 103 to 107, once the time checks have passed: decode the signature,
\* build the signed data, look the primitive up and call verify.
ValidateVerifyCall(parsed, key, rd) ==
    LET signature == Base64UrlDecode(parsed.parts[3])
        data == TextEncode(parsed.parts[1] \o <<Dot>> \o parsed.parts[2])
    IN  IF ~signature.ok
        THEN [pc |-> "done", result |-> Throw("Base64 decode error", "signature"),
              parsedJWT |-> parsed, pending |-> NoPending, resolved |-> <<>>,
              cryptoCalls |-> <<>>, readings |-> rd]
        ELSE [pc |-> "await", result |-> NoResult, parsedJWT |-> parsed,
              pending |-> [method |-> "verify",
                           primitive |-> getAlgorithm(parsed.algorithm),
                           key |-> key, signature |-> signature.bytes, data |-> data],
              resolved |-> <<parsed.algorithm>>, cryptoCalls |-> <<"verify">>,
              readings |-> rd]

\* Lines 100 to 102: the not-before check at clock reading nowNbf, where
\* before is what Date.now() < notBefore.getTime() evaluates to.
ValidateNotBefore(parsed, key, rd, nowNbf, before) ==
    IF ~IsNull(parsed.notBefore) /\ before
    THEN [pc |-> "done", result |-> Throw("Inactive JWT", "notBefore"),
          parsedJWT |-> parsed, pending |-> NoPending, resolved |-> <<>>,
          cryptoCalls |-> <<>>, readings |-> [rd EXCEPT !.nbf = nowNbf]]
    ELSE ValidateVerifyCall(parsed, key,
             IF ~IsNull(parsed.notBefore) THEN [rd EXCEPT !.nbf = nowNbf] ELSE rd)

\* Lines 97 to 99: the expiration check at clock reading nowExp, where within
\* is what isWithinExpirationDate evaluates to.
ValidateExpiration(parsed, key, nowExp, within, nowNbf, before) ==
    IF ~IsNull(parsed.expiresAt) /\ ~within
    THEN [pc |-> "done", result |-> Throw("Expired JWT", "expiration"),
          parsedJWT |-> parsed, pending |-> NoPending, resolved |-> <<>>,
          cryptoCalls |-> <<>>, readings |-> [NoReadings EXCEPT !.exp = nowExp]]
    ELSE ValidateNotBefore(parsed, key,
             IF ~IsNull(parsed.expiresAt)
             THEN [NoReadings EXCEPT !.exp = nowExp] ELSE NoReadings,
             nowNbf, before)

\* validateJWT without its algorithm check: the header's own tag decides the
\* primitive.
ValidateAlgorithm_Unchecked(parsed, algorithm, key, nowExp, within, nowNbf, before) ==
    ValidateExpiration(parsed, key, nowExp, within, nowNbf, before)

\* validateJWT with the algorithm check moved behind the expiration check.
ValidateAlgorithm_AfterExpiration(parsed, algorithm, key, nowExp, within, nowNbf, before) ==
    IF ~IsNull(parsed.expiresAt) /\ ~within
    THEN [pc |-> "done", result |-> Throw("Expired JWT", "expiration"),
          parsedJWT |-> parsed, pending |-> NoPending, resolved |-> <<>>,
          cryptoCalls |-> <<>>, readings |-> [NoReadings EXCEPT !.exp = nowExp]]
    ELSE IF parsed.algorithm /= algorithm
    THEN [pc |-> "done", result |-> Throw("Invalid algorithm", "algorithm"),
          parsedJWT |-> parsed, pending |-> NoPending, resolved |-> <<>>,
          cryptoCalls |-> <<>>, readings |-> NoReadings]
    ELSE ValidateExpiration(parsed, key, nowExp, within, nowNbf, before)

\* Lines 94 to 96: the algorithm check.
ValidateAlgorithm(parsed, algorithm, key, nowExp, within, nowNbf, before) ==
    IF parsed.algorithm /= algorithm
    THEN [pc |-> "done", result |-> Throw("Invalid algorithm", "algorithm"),
          parsedJWT |-> parsed, pending |-> NoPending, resolved |-> <<>>,
          cryptoCalls |-> <<>>, readings |-> NoReadings]
    ELSE ValidateExpiration(parsed, key, nowExp, within, nowNbf, before)

\* Lines 91 to 93, and then the rest of validateJWT up to its await; parsed
\* is what parseJWT(jwt) gave at line 90.
ValidateSync(parsed, algorithm, key, nowExp, within, nowNbf, before) ==
    IF parsed.kind = "throw"
    THEN [pc |-> "done", result |-> Throw(parsed.error, "parse"),
          parsedJWT |-> Null, pending |-> NoPending, resolved |-> <<>>,
          cryptoCalls |-> <<>>, readings |-> NoReadings]
    ELSE IF parsed.kind = "null"
    THEN [pc |-> "done", result |-> Throw("Invalid JWT", "parse"),
          parsedJWT |-> Null, pending |-> NoPending, resolved |-> <<>>,
          cryptoCalls |-> <<>>, readings |-> NoReadings]
    ELSE ValidateAlgorithm(parsed, algorithm, key, nowExp, within, nowNbf, before)

\* The clock positions a second reading can find after a reading at tick.
LaterTicks == {t \in {tick, tick + 1} : t <= MaxTick}

\* validateJWT(algorithm, key, jwt) from its call to its await or its throw.
\* The clock is read by the expiration and then by the not-before check, and
\* may have moved in between.
ValidateCall(algorithm, key, jwt, src) ==
    \E parsed \in {parseJWT(jwt)} :
    \E t2 \in LaterTicks :
    \E within \in IF parsed.kind = "jwt" /\ ~IsNull(parsed.expiresAt)
                  THEN IsWithinExpirationDate(Now, parsed.expiresAt) ELSE {TRUE} :
    \E before \in IF parsed.kind = "jwt" /\ ~IsNull(parsed.notBefore)
                  THEN NowIsBefore(ClockValues[t2], parsed.notBefore) ELSE {FALSE} :
    \E next \in {ValidateSync(parsed, algorithm, key, Now, within,
                              ClockValues[t2], before)} :
        /\ (next.readings.exp = -1 \/ next.readings.nbf = -1) => t2 = tick
        /\ tick' = t2
        /\ pc' = next.pc
        /\ op' = "validateJWT"
        /\ args' = [NoArgs EXCEPT !.algorithm = algorithm, !.key = key, !.jwt = jwt]
        /\ source' = src
        /\ parsedJWT' = next.parsedJWT
        /\ pending' = next.pending
        /\ result' = next.result
        /\ resolved' = next.resolved
        /\ cryptoCalls' = next.cryptoCalls
        /\ readings' = next.readings
        /\ UNCHANGED suspended

\* validateJWT returning the token whatever verify said.
ValidateResume_Unverified ==
    /\ pc = "await"
    /\ op = "validateJWT"
    /\ result' = Return(parsedJWT)
    /\ pc' = "done"
    /\ pending' = NoPending
    /\ UNCHANGED <<tick, op, args, source, parsedJWT, resolved, cryptoCalls, readings,
                   suspended>>

\* validateJWT from the result of verify to its end, lines 107 to 111.
ValidateResume ==
    /\ pc = "await"
    /\ op = "validateJWT"
    /\ LET validSignature == Verify(pending.primitive, pending.key,
                                    pending.signature, pending.data)
       IN  result' = IF ~validSignature THEN Throw("Invalid signature", "signature")
                     ELSE Return(parsedJWT)
    /\ pc' = "done"
    /\ pending' = NoPending
    /\ UNCHANGED <<tick, op, args, source, parsedJWT, resolved, cryptoCalls, readings,
                   suspended>>

\* parseJWT(token), called on its own.
ParseCall(token) ==
    /\ pc' = "done"
    /\ op' = "parseJWT"
    /\ args' = [NoArgs EXCEPT !.jwt = token]
    /\ \E parsed \in {parseJWT(token)} :
          result' = IF parsed.kind = "throw" THEN Throw(parsed.error, "parse")
                    ELSE Return(parsed)
    /\ UNCHANGED <<tick, source, parsedJWT, pending, resolved, cryptoCalls, readings,
                   suspended>>

(***************************************************************************)
(* createJWT, lines 64 to 83.                                              *)
(***************************************************************************)
\* header.alg: the property, or undefined (no tag) when there is none.
HeaderAlg(header) ==
    IF HasKey(header, K_alg) /\ IsString(Get(header, K_alg))
    THEN Get(header, K_alg).v ELSE <<>>

\* Lines 69 to 76: the two encoded parts joined by ".".
SigningInput(header, payload) ==
    LET headerPart == Base64UrlEncode(TextEncode(JSONStringify(header)))
        payloadPart == Base64UrlEncode(TextEncode(JSONStringify(payload)))
    IN  JoinWith(<<headerPart, payloadPart>>, Dot)

\* createJWT(key, header, payload) from its call to its await of sign, or to
\* the TypeError of getAlgorithm.
CreateCall(key, header, payload) ==
    LET data == TextEncode(SigningInput(header, payload))
        primitive == getAlgorithm(HeaderAlg(header))
    IN  /\ op' = "createJWT"
        /\ args' = [NoArgs EXCEPT !.key = key, !.header = header, !.payload = payload]
        /\ source' = NoSource
        /\ parsedJWT' = Null
        /\ resolved' = <<HeaderAlg(header)>>
        /\ readings' = NoReadings
        /\ IF ~primitive.ok
           THEN /\ pc' = "done"
                /\ result' = Throw("TypeError: Invalid algorithm", "getAlgorithm")
                /\ pending' = NoPending
                /\ cryptoCalls' = <<>>
           ELSE /\ pc' = "await"
                /\ result' = NoResult
                /\ pending' = [method |-> "sign", primitive |-> primitive, key |-> key,
                               signature |-> <<>>, data |-> data]
                /\ cryptoCalls' = <<"sign">>
        /\ UNCHANGED <<tick, suspended>>

\* The token with the signature bytes put in as they are, not encoded.
TokenValue_RawSignature(data, signature) ==
    JoinWith(<<data, signature>>, Dot)

\* Lines 78 to 82: the token, given the signature.
TokenValue(data, signature) ==
    JoinWith(<<data, Base64UrlEncode(signature)>>, Dot)

\* createJWT from the result of sign to its end.
CreateResume ==
    /\ pc = "await"
    /\ op = "createJWT"
    /\ \E salt \in Salts(pending.primitive) :
          result' = Return(TokenValue(pending.data,
                        SignWith(pending.primitive, pending.key, pending.data, salt)))
    /\ pc' = "done"
    /\ pending' = NoPending
    /\ UNCHANGED <<tick, op, args, source, parsedJWT, resolved, cryptoCalls, readings,
                   suspended>>


(***************************************************************************)
(* The inputs of the calls: tokens an honest issuer or an attacker can     *)
(* put on the wire, written as the JSON texts of their header and payload. *)
(***************************************************************************)
Str(c) == JStr(<<c>>)
Obj1(k, v) == JObj(<< <<k, v>> >>)
Obj2(k1, v1, k2, v2) == JObj(<< <<k1, v1>>, <<k2, v2>> >>)

\* The header createJWTHeader makes for each tag.
GoodHeaders == {createJWTHeader(JWTAlgorithm[a]) : a \in 1..Len(JWTAlgorithm)}

S_none == <<110, 111, 110, 101>>      \* "none"
S_hs256 == <<104, 115, 50, 53, 54>>   \* "hs256"
S_jwt == <<106, 119, 116>>            \* "jwt"
K_kid == <<107, 105, 100>>            \* "kid", an extension header field

\* Header texts other than createJWTHeader's.
OtherHeaderTexts ==
    {JSONStringify(h) : h \in
        {JObj(<<>>),
         Obj1(K_typ, JStr(S_JWT)),
         Obj1(K_alg, JStr(HS256)),
         JObj(<< <<K_typ, JStr(S_JWT)>>, <<K_alg, JStr(HS256)>>, <<K_kid, Str(49)>> >>)}}
    \cup {JSONStringify(Obj2(K_alg, a, K_typ, JStr(S_JWT))) : a \in
            {JStr(S_none), JStr(S_hs256), JStr(<<>>), JStr(HS256 \o <<32>>)}}
    \cup {JSONStringify(Obj2(K_alg, JInt(1), K_typ, JStr(S_JWT))),
          JSONStringify(Obj2(K_alg, JNull, K_typ, JStr(S_JWT))),
          JSONStringify(Obj2(K_alg, JArr(<<JStr(HS256)>>), K_typ, JStr(S_JWT))),
          JSONStringify(Obj2(K_alg, Obj1(K_alg, JStr(HS256)), K_typ, JStr(S_JWT)))}
    \cup {JSONStringify(Obj2(K_alg, JStr(HS256), K_typ, JStr(S_jwt))),
          JSONStringify(Obj2(K_alg, JStr(ES384), K_typ, JStr(<<>>))),
          JSONStringify(Obj2(K_alg, JStr(HS256), K_typ, JInt(1))),
          JSONStringify(Obj2(K_alg, JStr(PS512), K_typ, JNull)),
          JSONStringify(Obj2(K_alg, JStr(HS256), K_typ, JArr(<<JStr(S_JWT)>>)))}
    \cup {JSONStringify(JArr(<<JStr(HS256)>>)),
          JSONStringify(JStr(HS256)),
          JSONStringify(JInt(1)),
          JSONStringify(JNull),
          JSONStringify(JBool(TRUE))}
    \cup {\* the same key twice: {"alg":"none","alg":"HS256"} and the reverse
          <<123>> \o StringifyString(K_alg) \o <<58>> \o StringifyString(S_none)
            \o <<44>> \o StringifyString(K_alg) \o <<58>> \o StringifyString(HS256)
            \o <<125>>,
          <<123>> \o StringifyString(K_alg) \o <<58>> \o StringifyString(HS256)
            \o <<44>> \o StringifyString(K_alg) \o <<58>> \o StringifyString(S_none)
            \o <<125>>,
          \* whitespace and an escape: { "alg" : "HS256" }
          <<123, 32>> \o StringifyString(K_alg) \o <<32, 58, 32, 34, 92, 117, 48, 48,
             52, 56, 83, 50, 53, 54, 34, 32, 125>>}

\* Texts that are no JSON: cut short, or not JSON at all.
NotJSONTexts ==
    {<<>>,
     <<123>>,
     <<123, 34, 97, 108, 103, 34, 58, 34, 72, 83, 50, 53, 54, 34>>,
     <<123, 34, 97, 108, 103, 34, 58, 72, 83, 50, 53, 54, 125>>,
     <<110, 111, 116>>}

\* Seconds: the epoch, the first seconds, the last second a Date can hold
\* and the first past it (8,640,000,000,000 and 8,640,000,000,001), and a
\* negative time.
LastDateSecond == <<8, 6, 4, 0, 0, 0, 0, 0, 0, 0, 0, 0, 0>>
TimeSeconds ==
    {JInt(0), JInt(1), JInt(2), JInt(-1),
     JNum(FALSE, LastDateSecond),
     JNum(FALSE, [k \in 1..13 |-> IF k = 13 THEN 1 ELSE LastDateSecond[k]])}

\* Payloads with the time claims, for the time checks.
TimePayloads ==
    {JObj(<<>>)}
    \cup {Obj1(K_exp, e) : e \in TimeSeconds}
    \cup {Obj1(K_nbf, n) : n \in TimeSeconds}
    \cup {Obj2(K_exp, e, K_nbf, n) : e \in {JInt(1), JInt(2)}, n \in {JInt(1), JInt(2)}}
    \cup {Obj2(K_nbf, JInt(1), K_exp, JInt(0))}

\* The recognized claims with one well-typed value each.
ClaimKeys == <<K_exp, K_iss, K_sub, K_aud, K_nbf, K_iat, K_jti>>

GoodValue(key) ==
    CASE key = K_exp -> JInt(2) [] key = K_nbf -> JInt(0) [] key = K_iat -> JInt(1)
      [] key = K_iss -> Str(105) [] key = K_sub -> Str(115) [] key = K_jti -> Str(106)
      [] key = K_aud -> JArr(<<Str(97), Str(98)>>)

\* Values of each JSON type.
SomeValues ==
    {JNull, JBool(TRUE), JInt(5), Str(97), JArr(<<>>), JArr(<<Str(97), Str(98)>>),
     JArr(<<JInt(5)>>), JArr(<<Str(97), JInt(5)>>), JArr(<<JArr(<<Str(97)>>)>>),
     JArr(<<JNull>>), JObj(<<>>), Obj1(K_aud, Str(97)), JFloat(<<49, 46, 53>>)}

\* Whether value has the type parseJWT asks of the claim key.
WellTyped(key, value) ==
    IF key \in {K_exp, K_nbf, K_iat} THEN value.t = "num"
    ELSE IF key \in {K_iss, K_sub, K_jti} THEN value.t = "str"
    ELSE \/ value.t = "str"
         \/ value.t = "arr" /\ \A k \in 1..Len(value.v) : value.v[k].t = "str"

\* Payloads with one claim of any value: alone, after and before a
\* well-typed other claim, and among all seven claims.
OtherKey(key) == IF key = K_iss THEN K_jti ELSE K_iss

ClaimPayloads ==
    UNION {
        {Obj1(ClaimKeys[c], v),
         Obj2(OtherKey(ClaimKeys[c]), GoodValue(OtherKey(ClaimKeys[c])), ClaimKeys[c], v),
         Obj2(ClaimKeys[c], v, OtherKey(ClaimKeys[c]), GoodValue(OtherKey(ClaimKeys[c]))),
         JObj([k \in 1..Len(ClaimKeys) |->
                 <<ClaimKeys[k], IF k = c THEN v ELSE GoodValue(ClaimKeys[k])>>]),
         JObj([k \in 1..Len(ClaimKeys) |->
                 <<ClaimKeys[Len(ClaimKeys) + 1 - k],
                   IF Len(ClaimKeys) + 1 - k = c THEN v
                   ELSE GoodValue(ClaimKeys[Len(ClaimKeys) + 1 - k])>>])}
        : c \in 1..Len(ClaimKeys), v \in SomeValues}

\* Payload texts that are JSON but no object.
NonObjectPayloadTexts ==
    {JSONStringify(v) : v \in {JNull, JInt(5), Str(97), JBool(FALSE), JArr(<<>>),
                               JArr(<<Obj1(K_exp, JInt(1))>>)}}

\* The token an issuer holding key makes of the two texts with the primitive
\* of algorithm: what createJWT computes, for texts that need not be JSON.
IssuedToken(algorithm, key, headerText, payloadText) ==
    LET data == JoinWith(<<Base64UrlEncode(TextEncode(headerText)),
                           Base64UrlEncode(TextEncode(payloadText))>>, Dot)
    IN  TokenValue(data, SignWith(getAlgorithm(algorithm), key, TextEncode(data), 0))

\* Tokens with each tag in the header and the time payloads, signed with
\* key 1 under the header's own algorithm.
TimeTokens ==
    {IssuedToken(JWTAlgorithm[a], 1, JSONStringify(createJWTHeader(JWTAlgorithm[a])),
                 JSONStringify(p)) : a \in 1..Len(JWTAlgorithm), p \in TimePayloads}

\* Tokens with an HS256 header and the claim payloads.
ClaimTokens ==
    {IssuedToken(HS256, 1, JSONStringify(createJWTHeader(HS256)), JSONStringify(p))
        : p \in ClaimPayloads}
    \cup {IssuedToken(HS256, 1, JSONStringify(createJWTHeader(HS256)), t)
            : t \in NonObjectPayloadTexts}

\* Tokens with the other headers, signed under HS256.
HeaderTokens ==
    {IssuedToken(HS256, 1, h, JSONStringify(p))
        : h \in OtherHeaderTexts, p \in {JObj(<<>>), Obj1(K_exp, JInt(2))}}

\* Strings that are no token: not three segments, a segment with a
\* character outside the alphabet ("+", "!", an "=" before the last chunk),
\* a segment that is no JSON.
S_e30 == <<101, 51, 48>>   \* "e30", base64url of "{}"
GoodHeaderPart == Base64UrlEncode(TextEncode(JSONStringify(createJWTHeader(HS256))))
MalformedTokens ==
    {<<>>, S_e30, <<Dot>>, <<Dot, Dot>>, <<Dot, Dot, Dot>>,
     JoinWith(<<GoodHeaderPart, S_e30>>, Dot),
     JoinWith(<<GoodHeaderPart, S_e30, S_e30, S_e30>>, Dot),
     JoinWith(<<GoodHeaderPart, S_e30, S_e30, S_e30, S_e30>>, Dot),
     \* not three segments, and a segment that is no base64url
     <<33, 33>>, JoinWith(<<<<33, 33>>, S_e30>>, Dot),
     JoinWith(<<<<43>>, <<33>>, S_e30, S_e30>>, Dot)}
    \cup {JoinWith(<<hp, S_e30, S_e30>>, Dot) : hp \in
            {<<43>> \o GoodHeaderPart, GoodHeaderPart \o <<33>>,
             <<101, 51, 48, 61, 101, 51, 48, 65>>}}
    \cup {JoinWith(<<GoodHeaderPart, pp, S_e30>>, Dot) : pp \in
            {<<101, 51, 43, 48>>, <<32>> \o S_e30, <<101, 51, 48, 61, 61, 65>>}}
    \cup {JoinWith(<<GoodHeaderPart, S_e30, <<33, 33>> >>, Dot),
          JoinWith(<<GoodHeaderPart, <<101, 51, 48, 61>>, S_e30>>, Dot),
          JoinWith(<<GoodHeaderPart, <<101>>, S_e30>>, Dot)}
    \cup {IssuedToken(HS256, 1, t, JSONStringify(JObj(<<>>))) : t \in NotJSONTexts}
    \cup {IssuedToken(HS256, 1, JSONStringify(createJWTHeader(HS256)), t)
            : t \in NotJSONTexts}

\* The strings parseJWT is called with.
ParseInputs == TimeTokens \cup ClaimTokens \cup HeaderTokens \cup MalformedTokens

\* The calls of validateJWT: every expected tag against every token with a
\* good header, both keys; the other tokens with the tags HS256 and RS256.
ValidateInputs ==
    {[algorithm |-> JWTAlgorithm[a], key |-> k, jwt |-> t]
        : a \in 1..Len(JWTAlgorithm), k \in Keys, t \in TimeTokens}
    \cup {[algorithm |-> a, key |-> 1, jwt |-> t]
            : a \in {HS256, RS256},
              t \in ClaimTokens \cup HeaderTokens \cup MalformedTokens}

ParseStart ==
    /\ pc = "idle"
    /\ \E token \in ParseInputs : ParseCall(token)

ValidateStart ==
    /\ pc = "idle"
    /\ \E in \in ValidateInputs : ValidateCall(in.algorithm, in.key, in.jwt, NoSource)

Next == Tick \/ ParseStart \/ ValidateStart \/ ValidateResume

Spec == Init /\ [][Next]_vars

(***************************************************************************)
(* Round trip: a token made by createJWT is handed to validateJWT with the *)
(* algorithm of its header and the key it was made with.                   *)
(***************************************************************************)
K_ext == <<120>>   \* "x", an extension claim

\* Claim sets a caller can give createJWT (JWTPayload): the recognized
\* claims well typed, extension claims of any shape.
RoundTripPayloads ==
    TimePayloads
    \cup {Obj1(K_aud, Str(97)),
          Obj1(K_aud, JArr(<<Str(97), Str(98)>>)),
          Obj1(K_aud, JArr(<<>>)),
          Obj1(K_ext, JArr(<<JInt(5), JNull, Obj1(K_ext, JBool(TRUE))>>)),
          JObj([k \in 1..Len(ClaimKeys) |-> <<ClaimKeys[k], GoodValue(ClaimKeys[k])>>]),
          JObj(<< <<K_jti, JStr(<<34, 92>>)>>, <<K_ext, Str(97)>>, <<K_iat, JInt(2)>>,
                  <<K_sub, JStr(<<>>)>>, <<K_iss, JStr(HS256)>> >>)}

\* Headers a caller can give createJWT: createJWTHeader's, one with an
\* extension field, and one whose alg is no tag.
CreateHeaders ==
    GoodHeaders
    \cup {JObj(<< <<K_alg, JStr(ES512)>>, <<K_typ, JStr(S_JWT)>>, <<K_kid, Str(49)>> >>),
          Obj2(K_alg, JStr(S_none), K_typ, JStr(S_JWT))}

CreateStart ==
    /\ pc = "idle"
    /\ \E key \in Keys, header \in CreateHeaders, payload \in RoundTripPayloads :
          CreateCall(key, header, payload)

\* validateJWT on the token createJWT has just returned, with the algorithm
\* of the header and the key it was made with.
ValidateCreated ==
    /\ pc = "done"
    /\ op = "createJWT"
    /\ result.kind = "return"
    /\ ValidateCall(HeaderAlg(args.header), args.key, result.value,
                    [NoSource EXCEPT !.from = "createJWT", !.key = args.key,
                                     !.header = args.header, !.payload = args.payload])

RoundTripNext == Tick \/ CreateStart \/ CreateResume \/ ValidateCreated \/ ValidateResume

SpecRoundTrip == Init /\ [][RoundTripNext]_vars

(***************************************************************************)
(* Tampering: a token that validateJWT has accepted comes back with one    *)
(* bit of one character of a segment flipped and is validated again, with  *)
(* the same algorithm and key.                                             *)
(***************************************************************************)
\* s with bit number bit of its character at index flipped.
FlipBit(s, index, bit) ==
    [s EXCEPT ![index] = IF (s[index] \div (2 ^ bit)) % 2 = 1
                         THEN s[index] - 2 ^ bit ELSE s[index] + 2 ^ bit]

\* The tokens tampered with: one tag of each signature length modulo 3, and
\* time claims one bit away from expired and from not yet valid.
TamperAlgorithms == {HS256, HS384, RS256}
TamperPayloads == {Obj1(K_exp, JInt(1)), Obj2(K_nbf, JInt(0), K_exp, JInt(1))}

CreateForTamper ==
    /\ pc = "idle"
    /\ \E key \in Keys, algorithm \in TamperAlgorithms, payload \in TamperPayloads :
          CreateCall(key, createJWTHeader(algorithm), payload)

ValidateTampered ==
    /\ pc = "done"
    /\ op = "validateJWT"
    /\ source.from = "createJWT"
    /\ result.kind = "return"
    /\ \E index \in 1..Len(args.jwt), bit \in 0..7 :
          /\ args.jwt[index] /= Dot
          /\ ValidateCall(args.algorithm, args.key, FlipBit(args.jwt, index, bit),
                          [source EXCEPT !.from = "tamper", !.original = args.jwt,
                                         !.index = index, !.bit = bit])

TamperNext ==
    CreateForTamper \/ CreateResume \/ ValidateCreated \/ ValidateTampered \/ ValidateResume

SpecTamper == Init /\ [][TamperNext]_vars

(***************************************************************************)
(* createJWT(algorithm, key, payloadClaims, options) of the other version  *)
(* of jwt.ts (src/unnamed/part_003, lines 21 to 79): the header and the    *)
(* payload are built from the algorithm argument and the options.          *)
(***************************************************************************)
\* An option or property that is not there.
Undefined == [t |-> "undefined"]

RECURSIVE SpreadFrom(_, _, _)
\* {...members, ...more}, from the k-th member of more on: object spread.
SpreadFrom(members, more, k) ==
    IF k > Len(more) THEN members
    ELSE SpreadFrom(PutMember(members, more[k][1], more[k][2]), more, k + 1)

\* payload.key = value, when the option that gives value is there.
SetIfDefined(members, key, value) ==
    IF value.t = "undefined" THEN members ELSE PutMember(members, key, value)

\* Lines 36 to 40: {alg: algorithm, typ: "JWT", ...options?.headers}.
OptionsHeader(algorithm, options) ==
    JObj(SpreadFrom(<< <<K_alg, JStr(algorithm)>>, <<K_typ, JStr(S_JWT)>> >>,
                    IF options.headers.t = "undefined" THEN <<>> ELSE options.headers.v,
                    1))

\* Lines 41 to 64: {...payloadClaims}, then the claims the options give, in
\* the order aud, sub, iss, jti, exp, nbf, iat.  expiresIn is a TimeSpan
\* (its seconds), notBefore a Date (its milliseconds), nowMs is Date.now().
OptionsPayload(payloadClaims, options, nowMs) ==
    JObj(SetIfDefined(SetIfDefined(SetIfDefined(SetIfDefined(SetIfDefined(
         SetIfDefined(SetIfDefined(SpreadFrom(<<>>, payloadClaims.v, 1),
            K_aud, options.audiences),
            K_sub, options.subject),
            K_iss, options.issuer),
            K_jti, options.jwtId),
            K_exp, IF options.expiresIn.t = "undefined" THEN Undefined
                   ELSE JInt((nowMs \div 1000) + options.expiresIn.seconds)),
            K_nbf, IF options.notBefore.t = "undefined" THEN Undefined
                   ELSE JInt(options.notBefore.ms \div 1000)),
            K_iat, IF options.includeIssuedTimestamp THEN JInt(nowMs \div 1000)
                   ELSE Undefined))

\* createJWT(algorithm, key, payloadClaims, options) from its call to its
\* await of sign, or to the TypeError of getAlgorithm.
CreateOptionsCall(algorithm, key, payloadClaims, options) ==
    \E header \in {OptionsHeader(algorithm, options)} :
    \E payload \in {OptionsPayload(payloadClaims, options, Now)} :
    \E data \in {TextEncode(SigningInput(header, payload))} :
    \E primitive \in {getAlgorithm(algorithm)} :
        /\ op' = "createJWT"
        /\ args' = [NoArgs EXCEPT !.algorithm = algorithm, !.key = key,
                                  !.header = header, !.payload = payload]
        /\ source' = [NoSource EXCEPT !.from = "options", !.key = key,
                         !.header = IF options.headers.t = "undefined" THEN JNull
                                    ELSE options.headers,
                         !.payload = payloadClaims]
        /\ parsedJWT' = Null
        /\ resolved' = <<algorithm>>
        /\ readings' = NoReadings
        /\ IF ~primitive.ok
           THEN /\ pc' = "done"
                /\ result' = Throw("TypeError: Invalid algorithm", "getAlgorithm")
                /\ pending' = NoPending
                /\ cryptoCalls' = <<>>
           ELSE /\ pc' = "await"
                /\ result' = NoResult
                /\ pending' = [method |-> "sign", primitive |-> primitive, key |-> key,
                               signature |-> <<>>, data |-> data]
                /\ cryptoCalls' = <<"sign">>
        /\ UNCHANGED <<tick, suspended>>

\* The options a caller can give: none, extension headers (one of them with
\* a key the header already has), and the options that make claims.
NoOptions ==
    [headers |-> Undefined, audiences |-> Undefined, subject |-> Undefined,
     issuer |-> Undefined, jwtId |-> Undefined, expiresIn |-> Undefined,
     notBefore |-> Undefined, includeIssuedTimestamp |-> FALSE]

CreateOptions ==
    {[NoOptions EXCEPT !.headers = h] : h \in
        {Undefined, JObj(<<>>), Obj1(K_kid, Str(49)),
         Obj1(K_typ, JStr(S_jwt)), Obj1(K_alg, JStr(HS512)),
         Obj1(K_alg, JStr(S_none)), Obj2(K_kid, Str(49), K_alg, JStr(ES256))}}
    \cup {[NoOptions EXCEPT !.audiences = JArr(<<Str(97)>>), !.subject = Str(115),
                            !.issuer = Str(105), !.jwtId = Str(106),
                            !.expiresIn = [t |-> "span", seconds |-> 1],
                            !.notBefore = [t |-> "date", ms |-> 999],
                            !.includeIssuedTimestamp = TRUE],
          [NoOptions EXCEPT !.expiresIn = [t |-> "span", seconds |-> 0],
                            !.headers = Obj1(K_kid, Str(49))]}

CreateOptionsStart ==
    /\ pc = "idle"
    /\ \E algorithm \in Range(JWTAlgorithm), key \in Keys, options \in CreateOptions,
          payloadClaims \in {JObj(<<>>), Obj1(K_exp, JInt(2)), Obj1(K_sub, Str(97))} :
          CreateOptionsCall(algorithm, key, payloadClaims, options)

\* Both versions of createJWT, called at any time.
CreateNext == Tick \/ CreateStart \/ CreateOptionsStart \/ CreateResume

SpecCreate == Init /\ [][CreateNext]_vars

(***************************************************************************)
(* Concurrent calls.  A call that reaches its await gives the thread back: *)
(* its frame waits, other calls of createJWT and validateJWT start, and    *)
(* the frames that wait are continued in any order.                        *)
(***************************************************************************)
\* The local variables of a call, put back when it continues.
LoadFrame(frame) ==
    /\ pc' = frame.pc
    /\ op' = frame.op
    /\ args' = frame.args
    /\ source' = frame.source
    /\ parsedJWT' = frame.parsedJWT
    /\ pending' = frame.pending
    /\ result' = frame.result
    /\ resolved' = frame.resolved
    /\ cryptoCalls' = frame.cryptoCalls
    /\ readings' = frame.readings

\* The call that runs waits at its await (line 77 or line 107) and the
\* thread is free for another call.
Suspend(i) ==
    /\ pc = "await"
    /\ suspended[i] = NoFrame
    /\ suspended' = [suspended EXCEPT ![i] = Frame]
    /\ LoadFrame(NoFrame)
    /\ UNCHANGED tick

\* A call continuing with the primitive that the call which runs has made,
\* as when getAlgorithm kept one primitive for all its callers.
Continue_SharedPrimitive(i) ==
    /\ pc \in {"idle", "done", "await"}
    /\ suspended[i] /= NoFrame
    /\ LoadFrame([suspended[i] EXCEPT !.pending.primitive =
                     IF pc = "await" THEN pending.primitive ELSE @])
    /\ suspended' = [suspended EXCEPT ![i] = IF pc = "await" THEN Frame ELSE NoFrame]
    /\ UNCHANGED tick

\* The promise of sign or verify of a call that waits is settled and the call
\* has the thread again, with its own locals; the call that ran, when it is
\* at its await, waits in its place.
Continue(i) ==
    /\ pc \in {"idle", "done", "await"}
    /\ suspended[i] /= NoFrame
    /\ LoadFrame(suspended[i])
    /\ suspended' = [suspended EXCEPT ![i] = IF pc = "await" THEN Frame ELSE NoFrame]
    /\ UNCHANGED tick

\* Tokens that expire at second 1 and at second 2, from the issuer with key 1.
ConcurrentTokens ==
    {IssuedToken(HS256, 1, JSONStringify(createJWTHeader(HS256)),
                 JSONStringify(Obj1(K_exp, JInt(exp)))) : exp \in {1, 2}}

ConcurrentCreateStart ==
    /\ pc = "idle"
    /\ \E key \in Keys, algorithm \in {HS256, ES256} :
          CreateCall(key, createJWTHeader(algorithm), Obj1(K_exp, JInt(1)))

ConcurrentValidateStart ==
    /\ pc = "idle"
    /\ \E algorithm \in {HS256, HS512}, key \in Keys, jwt \in ConcurrentTokens :
          ValidateCall(algorithm, key, jwt, NoSource)

ConcurrentNext ==
    \/ Tick
    \/ ConcurrentCreateStart
    \/ ConcurrentValidateStart
    \/ \E i \in 1..MaxSuspended : Suspend(i)
    \/ \E i \in 1..MaxSuspended : Continue(i)
    \/ CreateResume
    \/ ValidateResume

SpecConcurrent == Init /\ [][ConcurrentNext]_vars

(***************************************************************************)
(* Properties.                                                             *)
(***************************************************************************)
\* The data a token's signature is made over, and its signature bytes.
SignedData(parsed) == TextEncode(parsed.parts[1] \o <<Dot>> \o parsed.parts[2])
SignatureOf(parsed) == Base64UrlDecode(parsed.parts[3])

\* Whether the token's signature is one the primitive of tag algorithm
\* accepts under key.
VerifiesUnder(parsed, algorithm, key) ==
    /\ SignatureOf(parsed).ok
    /\ Verify(getAlgorithm(algorithm), key, SignatureOf(parsed).bytes, SignedData(parsed))

\* C1: validateJWT(B, key, t), for a well-formed token t whose header names
\* the tag A and a supported tag B other than A, throws "Invalid algorithm"
\* whatever the key and the signature, and has by then constructed no
\* primitive and called neither sign nor verify.
C1_AlgorithmMismatchRejected ==
    (op = "validateJWT" /\ pc /= "idle") =>
        \A parsed \in {parseJWT(args.jwt)} :
            (/\ parsed.kind = "jwt"
             /\ isValidAlgorithm(JStr(args.algorithm))
             /\ parsed.algorithm /= args.algorithm) =>
                /\ pc = "done"
                /\ result = Throw("Invalid algorithm", "algorithm")
                /\ resolved = <<>>
                /\ cryptoCalls = <<>>
                /\ pending = NoPending

\* An HS256 token whose signature verifies under HS256 with the key given,
\* validated with RS256 expected.
C1_Witness ==
    /\ op = "validateJWT"
    /\ pc = "done"
    /\ args.algorithm = RS256
    /\ parsedJWT.kind = "jwt"
    /\ parsedJWT.algorithm = HS256
    /\ VerifiesUnder(parsedJWT, HS256, args.key)
    /\ result.error = "Invalid algorithm"

\* C4: validateJWT checks in the order parse, algorithm, expiration,
\* not-before, signature, and the error it throws is that of the first check
\* that fails: each outcome implies that all earlier checks passed, and the
\* first four leave before any primitive is called.
C4_EarliestFailingCheck ==
    (op = "validateJWT" /\ pc = "done") =>
        \A parsed \in {parseJWT(args.jwt)} :
            LET malformed == parsed.kind /= "jwt"
                wrongAlgorithm == parsed.algorithm /= args.algorithm
                expired == /\ ~IsNull(parsed.expiresAt)
                           /\ FALSE \in IsWithinExpirationDate(readings.exp, parsed.expiresAt)
                unexpired == \/ IsNull(parsed.expiresAt)
                             \/ TRUE \in IsWithinExpirationDate(readings.exp, parsed.expiresAt)
                inactive == /\ ~IsNull(parsed.notBefore)
                            /\ TRUE \in NowIsBefore(readings.nbf, parsed.notBefore)
                active == \/ IsNull(parsed.notBefore)
                          \/ FALSE \in NowIsBefore(readings.nbf, parsed.notBefore)
                badSignature == ~VerifiesUnder(parsed, args.algorithm, args.key)
            IN  CASE result.check = "parse" ->
                        malformed /\ cryptoCalls = <<>>
                  [] result.check = "algorithm" ->
                        /\ ~malformed /\ wrongAlgorithm
                        /\ result.error = "Invalid algorithm" /\ cryptoCalls = <<>>
                  [] result.check = "expiration" ->
                        /\ ~malformed /\ ~wrongAlgorithm /\ expired
                        /\ result.error = "Expired JWT" /\ cryptoCalls = <<>>
                  [] result.check = "notBefore" ->
                        /\ ~malformed /\ ~wrongAlgorithm /\ unexpired /\ inactive
                        /\ result.error = "Inactive JWT" /\ cryptoCalls = <<>>
                  [] result.check = "signature" ->
                        /\ ~malformed /\ ~wrongAlgorithm /\ unexpired /\ active
                        /\ badSignature
                  [] OTHER ->
                        /\ result.kind = "return"
                        /\ ~malformed /\ ~wrongAlgorithm /\ unexpired /\ active
                        /\ ~badSignature

\* A token that is expired, not yet valid and signed with another key than
\* the one given: the error is the expiration's.
C4_Witness ==
    /\ op = "validateJWT"
    /\ pc = "done"
    /\ parsedJWT.kind = "jwt"
    /\ ~IsNull(parsedJWT.notBefore)
    /\ TRUE \in NowIsBefore(Now, parsedJWT.notBefore)
    /\ ~VerifiesUnder(parsedJWT, args.algorithm, args.key)
    /\ result = Throw("Expired JWT", "expiration")

\* now < seconds * 1000, on the numbers themselves: seconds a JSON integer,
\* nowMs a natural number.
NowBeforeSeconds(nowMs, seconds) ==
    ~seconds.neg /\ DigitsLess(NatDigits(nowMs), TimesThousand(seconds.digits))

\* C5: for a well-formed token whose tag is the expected one and whose exp is
\* a whole number of seconds, validateJWT throws "Expired JWT" exactly when
\* exp is there and exp * 1000 <= now (equality included): never when exp is
\* strictly in the future or absent.
C5_ExpiredExactlyWhenNotInFuture ==
    (op = "validateJWT" /\ pc /= "idle") =>
        \A parsed \in {parseJWT(args.jwt)} :
            (/\ parsed.kind = "jwt"
             /\ parsed.algorithm = args.algorithm
             /\ HasKey(parsed.payload, K_exp) => Get(parsed.payload, K_exp).int) =>
                (result = Throw("Expired JWT", "expiration")
                 <=> /\ HasKey(parsed.payload, K_exp)
                     /\ ~NowBeforeSeconds(readings.exp, Get(parsed.payload, K_exp)))

\* C6: for a well-formed, unexpired token whose tag is the expected one and
\* whose nbf is a whole number of seconds, validateJWT throws "Inactive JWT"
\* exactly when nbf is there and now < nbf * 1000: the check passes at
\* now = nbf * 1000, later, and without nbf.
C6_InactiveExactlyWhenBefore ==
    (op = "validateJWT" /\ pc /= "idle") =>
        \A parsed \in {parseJWT(args.jwt)} :
            (/\ parsed.kind = "jwt"
             /\ parsed.algorithm = args.algorithm
             /\ result.check /= "expiration"
             /\ HasKey(parsed.payload, K_exp) =>
                    /\ Get(parsed.payload, K_exp).int
                    /\ NowBeforeSeconds(readings.exp, Get(parsed.payload, K_exp))
             /\ HasKey(parsed.payload, K_nbf) => Get(parsed.payload, K_nbf).int) =>
                (result = Throw("Inactive JWT", "notBefore")
                 <=> /\ HasKey(parsed.payload, K_nbf)
                     /\ NowBeforeSeconds(readings.nbf, Get(parsed.payload, K_nbf)))

\* The segments of a string, and what its first two decode to.
SegmentsOf(token) == Split(token, Dot)
ThreeDecodableSegments(token) ==
    /\ Len(SegmentsOf(token)) = 3
    /\ Base64UrlDecode(SegmentsOf(token)[1]).ok
    /\ Base64UrlDecode(SegmentsOf(token)[2]).ok
DecodedHeader(token) == JSONParse(TextDecode(Base64UrlDecode(SegmentsOf(token)[1]).bytes))
DecodedPayload(token) == JSONParse(TextDecode(Base64UrlDecode(SegmentsOf(token)[2]).bytes))

\* A header as the specification wants it: an object whose alg is a string
\* that is one of the twelve tags, letter for letter, and whose typ, when
\* there, is the string "JWT".
HeaderAccepted(h) ==
    /\ h.t = "obj"
    /\ HasKey(h, K_alg)
    /\ Get(h, K_alg).t = "str"
    /\ Get(h, K_alg).v \in {HS256, HS384, HS512, RS256, RS384, RS512,
                            ES256, ES384, ES512, PS256, PS384, PS512}
    /\ HasKey(h, K_typ) => (Get(h, K_typ).t = "str" /\ Get(h, K_typ).v = S_JWT)

\* The recognized claims of payload that have not the type asked for.
IllTypedClaims(payload) ==
    {c \in 1..Len(ClaimKeys) :
        HasKey(payload, ClaimKeys[c]) /\ ~WellTyped(ClaimKeys[c], Get(payload, ClaimKeys[c]))}

\* C7: parseJWT returns a token only if the decoded header is accepted; a
\* string of three base64url segments whose header is a JSON value of any
\* other shape gives null; and parseJWT constructs no primitive and calls
\* neither sign nor verify, whatever the string.
C7_HeaderVetting ==
    (op = "parseJWT" /\ pc = "done") =>
        /\ resolved = <<>> /\ cryptoCalls = <<>> /\ pending = NoPending
        /\ (result.kind = "return" /\ result.value.kind = "jwt") =>
              /\ ThreeDecodableSegments(args.jwt)
              /\ DecodedHeader(args.jwt).ok
              /\ HeaderAccepted(DecodedHeader(args.jwt).v)
              /\ result.value.algorithm = Get(DecodedHeader(args.jwt).v, K_alg).v
        /\ (/\ ThreeDecodableSegments(args.jwt)
            /\ DecodedHeader(args.jwt).ok
            /\ ~HeaderAccepted(DecodedHeader(args.jwt).v)) => result = Return(Null)

\* A header whose alg is "hs256", lower case, over a payload that is fine.
C7_Witness ==
    /\ op = "parseJWT"
    /\ pc = "done"
    /\ ThreeDecodableSegments(args.jwt)
    /\ DecodedHeader(args.jwt).ok
    /\ HasKey(DecodedHeader(args.jwt).v, K_alg)
    /\ Get(DecodedHeader(args.jwt).v, K_alg) = JStr(S_hs256)
    /\ DecodedPayload(args.jwt).ok
    /\ DecodedPayload(args.jwt).v.t = "obj"
    /\ result = Return(Null)

\* A string the specification calls structurally malformed: not three
\* segments, a segment with a character outside the base64url alphabet, a
\* header or payload that is no JSON, a header that is not accepted (alg
\* missing or invalid, typ wrong), a recognized claim of the wrong type.
StructurallyMalformed(token) ==
    \/ Len(SegmentsOf(token)) /= 3
    \/ \E k \in 1..3 : \E i \in 1..Len(SegmentsOf(token)[k]) :
          SegmentsOf(token)[k][i] \notin Range(Base64UrlAlphabet) \cup {Equals}
    \/ ~ThreeDecodableSegments(token)
    \/ ~DecodedHeader(token).ok
    \/ ~HeaderAccepted(DecodedHeader(token).v)
    \/ ~DecodedPayload(token).ok
    \/ IllTypedClaims(DecodedPayload(token).v) /= {}

\* C8: for every structurally malformed string parseJWT returns null and
\* throws nothing, and validateJWT throws "Invalid JWT" and no other error.
C8_MalformedGivesOneOutcome ==
    /\ (op = "parseJWT" /\ pc = "done" /\ StructurallyMalformed(args.jwt)) =>
          result = Return(Null)
    /\ (op = "validateJWT" /\ pc /= "idle" /\ StructurallyMalformed(args.jwt)) =>
          (pc = "done" /\ result = Throw("Invalid JWT", "parse"))

\* The claims other than key of payload have the types parseJWT asks for.
OthersWellTyped(payload, key) ==
    \A c \in 1..Len(ClaimKeys) :
        (ClaimKeys[c] /= key /\ HasKey(payload, ClaimKeys[c])) =>
            WellTyped(ClaimKeys[c], Get(payload, ClaimKeys[c]))

\* A string that parseJWT is to judge by the claim key alone: three
\* base64url segments, an accepted header, a payload that is an object whose
\* other recognized claims are well typed.
ValidButFor(token, key) ==
    /\ ThreeDecodableSegments(token)
    /\ DecodedHeader(token).ok
    /\ HeaderAccepted(DecodedHeader(token).v)
    /\ DecodedPayload(token).ok
    /\ DecodedPayload(token).v.t = "obj"
    /\ OthersWellTyped(DecodedPayload(token).v, key)

C10_IllTypedClaimRejectsToken ==
    (op = "parseJWT" /\ pc = "done") =>
        /\ (/\ ThreeDecodableSegments(args.jwt)
            /\ DecodedHeader(args.jwt).ok
            /\ HeaderAccepted(DecodedHeader(args.jwt).v)
            /\ DecodedPayload(args.jwt).ok
            /\ DecodedPayload(args.jwt).v.t = "obj"
            /\ IllTypedClaims(DecodedPayload(args.jwt).v) /= {}) => result = Return(Null)
        /\ (result.kind = "return" /\ result.value.kind = "jwt") =>
              IllTypedClaims(result.value.payload) = {}

\* All seven claims, the last in the code's order (jti) ill typed and the
\* six before it fine.
C10_Witness ==
    /\ op = "parseJWT"
    /\ pc = "done"
    /\ ThreeDecodableSegments(args.jwt)
    /\ DecodedPayload(args.jwt).ok
    /\ DecodedPayload(args.jwt).v.t = "obj"
    /\ Len(DecodedPayload(args.jwt).v.v) = Len(ClaimKeys)
    /\ IllTypedClaims(DecodedPayload(args.jwt).v) = {7}
    /\ result = Return(Null)

\* Whether seconds * 1000 is a time value a Date can hold.
InDateRange(seconds) == ~DigitsLess(MaxTimeValue, TimesThousand(seconds.digits))

\* The typed field of a time claim: the Date at seconds * 1000 ms, the
\* Invalid Date when that is out of a Date's range, null without the claim.
DateField(payload, key) ==
    IF ~HasKey(payload, key) THEN JNull
    ELSE IF ~InDateRange(Get(payload, key))
    THEN [t |-> "date", kind |-> "invalid", neg |-> FALSE, digits |-> <<>>]
    ELSE [t |-> "date", kind |-> "time", neg |-> Get(payload, key).neg,
          digits |-> TimesThousand(Get(payload, key).digits)]

\* The typed field of a string claim: the string, null without the claim.
StringField(payload, key) == IF HasKey(payload, key) THEN Get(payload, key) ELSE JNull

\* The typed field of aud: the list of strings, a single string as the list
\* of that one string, null without the claim.
AudienceField(payload) ==
    IF ~HasKey(payload, K_aud) THEN JNull
    ELSE IF Get(payload, K_aud).t = "str" THEN JArr(<<Get(payload, K_aud)>>)
    ELSE Get(payload, K_aud)

\* The token's payload and typed fields are those of the claims put in.
ClaimsComeBack(jwt, payload) ==
    /\ jwt.payload = payload
    /\ jwt.expiresAt = DateField(payload, K_exp)
    /\ jwt.notBefore = DateField(payload, K_nbf)
    /\ jwt.issuedAt = DateField(payload, K_iat)
    /\ jwt.issuer = StringField(payload, K_iss)
    /\ jwt.subject = StringField(payload, K_sub)
    /\ jwt.jwtId = StringField(payload, K_jti)
    /\ jwt.audiences = AudienceField(payload)

HeaderLength(token) == Len(SegmentsOf(token)[1])
PayloadLength(token) == Len(SegmentsOf(token)[2])
FlippedInSignature ==
    source.index > HeaderLength(source.original) + PayloadLength(source.original) + 2

DotCount(token) == Cardinality({i \in 1..Len(token) : token[i] = Dot})

\* C11: for every string that has not exactly three segments (not exactly
\* two "."), parseJWT returns null, also when a segment is not base64url, so
\* no segment was decoded; validateJWT on such a string throws "Invalid JWT"
\* and constructs and calls no primitive.
C11_SegmentCount ==
    /\ (op = "parseJWT" /\ pc = "done" /\ DotCount(args.jwt) /= 2) =>
          result = Return(Null)
    /\ (op = "validateJWT" /\ pc /= "idle" /\ DotCount(args.jwt) /= 2) =>
          /\ pc = "done"
          /\ result = Throw("Invalid JWT", "parse")
          /\ resolved = <<>>
          /\ cryptoCalls = <<>>

\* Four segments, the first two of them with characters the decoder throws
\* on.
C11_Witness ==
    /\ op = "parseJWT"
    /\ pc = "done"
    /\ DotCount(args.jwt) = 3
    /\ ~Base64UrlDecode(SegmentsOf(args.jwt)[1]).ok
    /\ ~Base64UrlDecode(SegmentsOf(args.jwt)[2]).ok
    /\ result = Return(Null)

\* C12: in every token createJWT returns, of either version, the alg of the
\* encoded header is the tag whose primitive made the signature, whatever
\* the algorithm argument, the header and the extension headers.
C12_HeaderAlgIsSigningAlgorithm ==
    (op = "createJWT" /\ pc = "done" /\ result.kind = "return") =>
        /\ DecodedHeader(result.value).ok
        /\ HasKey(DecodedHeader(result.value).v, K_alg)
        /\ Get(DecodedHeader(result.value).v, K_alg) = JStr(resolved[1])

\* How validateJWT ends from what its part before the await gave.
OutcomeOf(next) ==
    IF next.pc = "done" THEN next.result
    ELSE IF Verify(next.pending.primitive, next.pending.key, next.pending.signature,
                   next.pending.data)
    THEN Return(next.parsedJWT)
    ELSE Throw("Invalid signature", "signature")

\* The outcomes of validateJWT running alone on arguments a with the clock
\* readings rd; parsed is parseJWT(a.jwt).
AloneValidate(a, rd, parsed) ==
    {OutcomeOf(ValidateSync(parsed, a.algorithm, a.key, rd.exp, within, rd.nbf, before)) :
        within \in IF parsed.kind = "jwt" /\ ~IsNull(parsed.expiresAt) /\ rd.exp /= -1
                   THEN IsWithinExpirationDate(rd.exp, parsed.expiresAt) ELSE {TRUE},
        before \in IF parsed.kind = "jwt" /\ ~IsNull(parsed.notBefore) /\ rd.nbf /= -1
                   THEN NowIsBefore(rd.nbf, parsed.notBefore) ELSE {FALSE}}

\* The outcomes of createJWT(a.key, a.header, a.payload) running alone.
AloneCreate(a, primitive, data) ==
    IF ~primitive.ok THEN {Throw("TypeError: Invalid algorithm", "getAlgorithm")}
    ELSE {Return(TokenValue(data, SignWith(primitive, a.key, data, salt))) :
             salt \in Salts(primitive)}

CallEndsAsAlone ==
    /\ (pc = "done" /\ op = "validateJWT") =>
          \A parsed \in {parseJWT(args.jwt)} :
              result \in AloneValidate(args, readings, parsed)
    /\ (pc = "done" /\ op = "createJWT") =>
          result \in AloneCreate(args, getAlgorithm(HeaderAlg(args.header)),
                                 TextEncode(SigningInput(args.header, args.payload)))

\* A frame that waits after a step waited before it as it is, or is that of
\* the call that ran and has reached its await.
FramesKept ==
    \A i \in 1..MaxSuspended :
        suspended'[i] /= NoFrame =>
            \/ \E j \in 1..MaxSuspended : suspended'[i] = suspended[j]
            \/ pc = "await" /\ suspended'[i] = Frame

C14_PayloadMustBeObject ==
    (/\ op = "parseJWT" /\ pc = "done"
     /\ ThreeDecodableSegments(args.jwt)
     /\ DecodedHeader(args.jwt).ok
     /\ HeaderAccepted(DecodedHeader(args.jwt).v)
     /\ DecodedPayload(args.jwt).ok
     /\ DecodedPayload(args.jwt).v.t /= "obj") =>
        result = Return(Null)

\* What the time checks of a call that returned payload found at their
\* clock readings rd: exp strictly in the future, nbf not in the future.
TimeChecksPassedAt(payload, rd) ==
    /\ (HasKey(payload, K_exp) /\ Get(payload, K_exp).int) =>
          NowBeforeSeconds(rd.exp, Get(payload, K_exp))
    /\ (HasKey(payload, K_nbf) /\ Get(payload, K_nbf).int) =>
          ~NowBeforeSeconds(rd.nbf, Get(payload, K_nbf))

ValidTokenPassedTimeChecks ==
    (op = "validateJWT" /\ pc = "done" /\ result.kind = "return") =>
        TimeChecksPassedAt(result.value.payload, readings)

\* validateJWT after its await: the clock is not read, and the call returns
\* the token or throws by what verify said alone.
ResumeIgnoresClock ==
    (op = "validateJWT" /\ pc = "await" /\ pc' = "done") =>
        /\ readings' = readings
        /\ result' = IF Verify(pending.primitive, pending.key, pending.signature,
                               pending.data)
                     THEN Return(parsedJWT)
                     ELSE Throw("Invalid signature", "signature")

\* C15: validateJWT reads the clock before its await only.  A token that it
\* returns had its exp strictly in the future and its nbf not in the future
\* when the time checks read the clock, and the clock passing exp while verify
\* is pending changes nothing.
C15_ClockReadBeforeAwaitOnly ==
    []ValidTokenPassedTimeChecks /\ [][ResumeIgnoresClock]_vars

=============================================================================
